---- MODULE Spec2Model ----
(***************************************************************************)
(* Model of the heartbeat delivery engine of cronitor-cli (cmd/root.go):   *)
(* sendPing's bounded retry loop, its host selection, its backoff sleeps,  *)
(* the construction of the request URI and the WaitGroup barrier that the  *)
(* caller uses to join the delivery goroutines; the notification encoder   *)
(* (truncateString, formatStamp, the query fragments) and the timezone     *)
(* resolver timezoneLocationName.                                          *)
(***************************************************************************)
EXTENDS Integers, Sequences, FiniteSets, TLC

(* ---------------- bounds of the model ---------------- *)
\* number of delivery goroutines the concurrent specification launches
NumSeq == 2
\* longest monitor identifier, in characters
MaxIdLen == 3

(* ---------------- program constants ---------------- *)
\* for i := 1; i <= 6; i++
MaxTries == 6
\* if i > 2  (both in the host choice and in the sleep guard)
FailoverAfter == 2
\* time.Sleep(time.Second * 2)
SleepSeconds == 2
\* Timeout: time.Second * 3
ClientTimeoutSeconds == 3
\* response.StatusCode < 400
ErrorStatus == 400
\* truncateString(message, 2000)
MsgLimit == 2000
\* truncateString(pingApiAuthKey, 50)
KeyLimit == 50
\* truncateString(hostname, 50)
HostLimit == 50
\* strconv.FormatFloat(timestamp, 'f', 3, 64)
StampDecimals == 3

DevHost == "http://dev.cronitor.io"
LinkHost == "https://cronitor.link"
CanonicalHost == "https://cronitor.io"

(* ---------------- input domains ---------------- *)
Seqs == 1..NumSeq
\* characters of identifiers: a hex digit, a non-hex letter, and
\* the percent sign that opens a URL escape
Chars == {"a", "z", "%"}
HexChars == {"a", "1", "2", "3", "4", "5", "6", "7"}
Endpoints == {"run", "complete"}
\* status codes a server may answer with, around the 400 boundary
Statuses == {200, 399, 400, 500}

RECURSIVE StringsUpTo(_)
StringsUpTo(n) ==
    IF n = 0 THEN {<<>>}
    ELSE LET shorter == StringsUpTo(n - 1)
         IN shorter \cup {Append(w, c) : w \in {x \in shorter : Len(x) = n - 1}, c \in Chars}

Identifiers == StringsUpTo(MaxIdLen)
\* the dedup tag: absent, URL-safe, or carrying a raw percent sign
Tags == {<<>>, <<"a">>, <<"%">>}

\* one outcome of Client.Do followed by ioutil.ReadAll
TransportError == [err |-> TRUE, readErr |-> FALSE, status |-> 0]
Outcomes ==
    {TransportError} \cup
    {[err |-> FALSE, readErr |-> re, status |-> st] : re \in BOOLEAN, st \in Statuses}

\* a finite non-negative float64 x, held exactly as ip + fn / FracDen
FracDen == 2 ^ 22
ZeroFloat == [ip |-> 0, fn |-> 0]
\* 1700000000.123456 as the nearest float64
SampleStamp == [ip |-> 1700000000, fn |-> 517812]
\* 1.5
SampleDuration == [ip |-> 1, fn |-> FracDen \div 2]

\* *float64 and *int arguments: nil, or a pointer to val
NilFloat == [nil |-> TRUE, val |-> ZeroFloat]
NilInt == [nil |-> TRUE, val |-> 0]
PtrTo(v) == [nil |-> FALSE, val |-> v]

\* the optional arguments and the configuration of a notification that
\* carries none of them
Bare ==
    [timestamp |-> ZeroFloat, message |-> <<>>, authKey |-> <<>>,
     hostOverride |-> <<>>, osHost |-> <<>>, duration |-> NilFloat,
     exitCode |-> NilInt]

\* every combination of optional arguments and configuration
\* <<hostname override, os.Hostname()>>: neither, the system's only, both
HostConfigs == {<<<<>>, <<>>>>, <<<<>>, <<"o", "&">>>>, <<<<"h">>, <<"o", "&">>>>}

Notes ==
    {[timestamp |-> ts, message |-> m, authKey |-> k, hostOverride |-> hc[1],
      osHost |-> hc[2], duration |-> d, exitCode |-> e] :
        ts \in {ZeroFloat, SampleStamp},
        m \in {<<>>, <<"m", " ">>},
        k \in {<<>>, <<"k">>},
        hc \in HostConfigs,
        d \in {NilFloat, PtrTo(ZeroFloat), PtrTo(SampleDuration)},
        e \in {NilInt, PtrTo(0)}}

Merge(f, g) == [k \in (DOMAIN f) \cup (DOMAIN g) |-> IF k \in DOMAIN f THEN f[k] ELSE g[k]]

\* the arguments of a goroutine that was never launched
NoInput == Merge([endpoint |-> "none", id |-> <<>>, tag |-> <<>>], Bare)
NoResp == [try |-> 0, err |-> FALSE, readErr |-> FALSE, status |-> 0]

VARIABLES
    dev,          \* the --use-dev flag, read-only after startup
    input,        \* per goroutine: the arguments of sendPing and the
                  \* configuration it reads (ping auth key, hostnames)
    pc,           \* per goroutine: position in sendPing
    i,            \* per goroutine: the loop counter
    reqs,         \* per goroutine: the requests handed to Client.Do, in order
    resp,         \* per goroutine: outcome of the latest attempt
    sleeps,       \* per goroutine: the backoff sleeps performed, in order
    failKinds,    \* per goroutine: the kinds of failure met so far
    doneCount,    \* per goroutine: how often it called group.Done
    wg,           \* the WaitGroup counter
    waitReturned, \* the caller's group.Wait has returned
    crashed,      \* the process was terminated by an unrecovered panic
    log,          \* per goroutine: the messages handed to log(), in order
    openBodies,   \* per goroutine: response bodies received and not closed
    tz,           \* the environment and the progress of timezoneLocationName
    calc          \* the argument and the result of one call of a pure helper

vars == <<dev, input, pc, i, reqs, resp, sleeps, failKinds, doneCount, wg,
          waitReturned, crashed, log, openBodies, tz, calc>>

\* what the delivery engine never touches
otherVars == <<tz, calc>>

\* the state of the delivery engine and of its caller
deliveryVars ==
    <<dev, input, pc, i, reqs, resp, sleeps, failKinds, doneCount, wg,
      waitReturned, crashed, log, openBodies>>

(* ---------------- pure parts of sendPing ---------------- *)

\* fmt.Sprintf("%d", i) for the values the loop counter takes
TryStr(n) == <<"1", "2", "3", "4", "5", "6", "7", "8">>[n]

\* if len(tag) > 0 { tag = fmt.Sprintf("&tag=%s", tag) }
FormatTag(tag) == IF Len(tag) > 0 THEN <<"&tag=">> \o tag ELSE <<>>

DigitStr(d) == <<"0", "1", "2", "3", "4", "5", "6", "7", "8", "9">>[d + 1]

\* the decimal digits of a natural number, most significant first
RECURSIVE Digits(_)
Digits(n) == IF n < 10 THEN <<DigitStr(n)>> ELSE Append(Digits(n \div 10), DigitStr(n % 10))

\* the w low decimal digits of n, zero-padded
RECURSIVE FixedDigits(_, _)
FixedDigits(n, w) ==
    IF w = 0 THEN <<>> ELSE Append(FixedDigits(n \div 10, w - 1), DigitStr(n % 10))

\* fmt.Sprintf("%d", n)
IntStr(n) == IF n < 0 THEN <<"-">> \o Digits(0 - n) ELSE Digits(n)

\* x * 10^decimals rounded to the nearest integer, ties to even, as
\* strconv rounds the exact value of the float: a pair <<integer part,
\* fraction digits as a number>>.  fn * 1000 / 2^22 is computed as
\* fn * 125 / 2^19 to stay within 32-bit integers.
RoundDecimals(x) ==
    LET num == x.fn * 125
        den == FracDen \div 8
        q == num \div den
        r == num % den
        up == 2 * r > den \/ (2 * r = den /\ q % 2 = 1)
        m == IF up THEN q + 1 ELSE q
    IN IF m = 1000 THEN <<x.ip + 1, 0>> ELSE <<x.ip, m>>

\* formatStamp writing two decimals instead of three
formatStamp_TwoDecimals(x) ==
    LET rd == RoundDecimals(x)
    IN Digits(rd[1]) \o <<".">> \o FixedDigits(rd[2] \div 10, StampDecimals - 1)

\* strconv.FormatFloat(timestamp, 'f', 3, 64)
formatStamp(x) ==
    LET rd == RoundDecimals(x)
    IN Digits(rd[1]) \o <<".">> \o FixedDigits(rd[2], StampDecimals)

\* truncateString cutting one byte too late
truncateString_OffByOne(s, length) ==
    IF Len(s) <= length THEN s ELSE SubSeq(s, 1, length + 1)

\* if len(s) <= length { return s }; return s[:length]
truncateString(s, length) ==
    IF Len(s) <= length THEN s ELSE SubSeq(s, 1, length)

\* url.QueryEscape of one byte: a space becomes "+", a reserved byte its
\* percent escape, anything else stays
EscapeByte(c) ==
    CASE c = " " -> <<"+">>
      [] c = "&" -> <<"%", "2", "6">>
      [] c = "%" -> <<"%", "2", "5">>
      [] OTHER -> <<c>>

\* url.QueryEscape(s)
RECURSIVE QueryEscape(_)
QueryEscape(s) ==
    IF Len(s) = 0 THEN <<>>
    ELSE IF Len(s) = 1 THEN EscapeByte(s[1])
    ELSE LET h == Len(s) \div 2
         IN QueryEscape(SubSeq(s, 1, h)) \o QueryEscape(SubSeq(s, h + 1, Len(s)))

\* viper's hostname override when set, else os.Hostname() ("" on failure)
effectiveHostname(override, osName) == IF Len(override) > 0 THEN override ELSE osName

\* if timestamp > 0 { formattedStamp = "&stamp=" + formatStamp(timestamp) }
FormatStampParam(ts) ==
    IF ts.ip > 0 \/ ts.fn > 0 THEN <<"&stamp=">> \o formatStamp(ts) ELSE <<>>

\* FormatMessage escaping before it truncates
FormatMessage_EscapeFirst(m) ==
    IF Len(m) > 0 THEN <<"&msg=">> \o truncateString(QueryEscape(m), MsgLimit) ELSE <<>>

\* if len(message) > 0 { message = "&msg=" + QueryEscape(truncateString(message, 2000)) }
FormatMessage(m) ==
    IF Len(m) > 0 THEN <<"&msg=">> \o QueryEscape(truncateString(m, MsgLimit)) ELSE <<>>

\* if len(pingApiAuthKey) > 0 { ... "&auth_key=" + truncateString(key, 50) }
FormatAuthKey(k) ==
    IF Len(k) > 0 THEN <<"&auth_key=">> \o truncateString(k, KeyLimit) ELSE <<>>

\* if len(hostname) > 0 { ... "&host=" + QueryEscape(truncateString(hostname, 50)) }
FormatHostname(h) ==
    IF Len(h) > 0 THEN <<"&host=">> \o QueryEscape(truncateString(h, HostLimit)) ELSE <<>>

\* FormatDuration treating a zero duration as absent
FormatDuration_DropsZero(d) ==
    IF ~d.nil /\ (d.val.ip > 0 \/ d.val.fn > 0)
    THEN <<"&duration=">> \o formatStamp(d.val) ELSE <<>>

\* if duration != nil { formattedDuration = "&duration=" + formatStamp(*duration) }
FormatDuration(d) ==
    IF ~d.nil THEN <<"&duration=">> \o formatStamp(d.val) ELSE <<>>

\* if exitCode != nil { formattedStatusCode = fmt.Sprintf("&status_code=%d", *exitCode) }
FormatStatusCode(e) ==
    IF ~e.nil THEN <<"&status_code=">> \o IntStr(e.val) ELSE <<>>

\* SelectHost with the failover test placed ahead of the dev test
SelectHost_FailoverFirst(d, n) ==
    IF n > FailoverAfter THEN CanonicalHost
    ELSE IF d THEN DevHost
    ELSE LinkHost

\* the host of attempt n.  `host` is declared inside the loop body, so it is
\* the empty string whenever the failover condition reads it.
SelectHost(d, n) ==
    LET host == ""
    IN IF d THEN DevHost
       ELSE IF n > FailoverAfter /\ host = LinkHost THEN CanonicalHost
       ELSE LinkHost

\* BuildUri with the tag and the duration in each other's place
BuildUri_TagBeforeDuration(host, id, endpoint, n, stamp, msg, authKey, hn, dur, tag, status) ==
    <<host, "/">> \o id \o <<"/", endpoint, "?try=", TryStr(n)>>
        \o stamp \o msg \o authKey \o hn \o tag \o dur \o status

\* BuildUri appending the tag once more on every retry
BuildUri_TagPerRetry(host, id, endpoint, n, stamp, msg, authKey, hn, dur, tag, status) ==
    <<host, "/">> \o id \o <<"/", endpoint, "?try=", TryStr(n)>>
        \o stamp \o msg \o authKey \o hn \o dur \o tag \o status
        \o (IF n > 1 THEN tag ELSE <<>>)

\* fmt.Sprintf("%s/%s/%s?try=%d%s%s%s%s%s%s%s", host, uniqueIdentifier,
\*             endpoint, i, formattedStamp, message, pingApiAuthKey, hostname,
\*             formattedDuration, tag, formattedStatusCode)
\* as a sequence of tokens: literals of the format and the host are one token
\* each, caller-supplied text is one token per character.
BuildUri(host, id, endpoint, n, stamp, msg, authKey, hn, dur, tag, status) ==
    <<host, "/">> \o id \o <<"/", endpoint, "?try=", TryStr(n)>>
        \o stamp \o msg \o authKey \o hn \o dur \o tag \o status

\* the path of a URI: the tokens after the host up to the query
RECURSIVE PathEnd(_, _)
PathEnd(uri, k) ==
    IF k > Len(uri) THEN Len(uri)
    ELSE IF uri[k] = "?try=" THEN k - 1
    ELSE PathEnd(uri, k + 1)

UriPath(uri) == SubSeq(uri, 2, PathEnd(uri, 2))

\* net/url rejects a path in which a percent sign is not followed by two
\* hexadecimal digits (url.Parse, called by http.NewRequest)
ValidEscapes(path) ==
    \A k \in 1..Len(path) :
        path[k] = "%" =>
            /\ k + 2 <= Len(path)
            /\ path[k + 1] \in HexChars
            /\ path[k + 2] \in HexChars

\* request, err := http.NewRequest("GET", uri, nil): TRUE when err == nil
NewRequestOk(uri) == ValidEscapes(UriPath(uri))

\* LoopCond with an off-by-one bound
LoopCond_OffByOne(n) == n <= MaxTries + 1

\* for i := 1; i <= 6; i++
LoopCond(n) == n <= MaxTries

\* if i > 2 { time.Sleep(...) } in the transport-error branch
SleepsAfter(n) == n > FailoverAfter

\* IsSuccess without the test of ReadAll's error
IsSuccess_IgnoresReadErr(r) == ~r.err /\ r.status < ErrorStatus

\* err == nil && response.StatusCode < 400, after Client.Do returned no error
IsSuccess(r) == ~r.err /\ ~r.readErr /\ r.status < ErrorStatus

FailKind(r) ==
    IF r.err THEN "transport"
    ELSE IF r.readErr THEN "body"
    ELSE "status"

\* HandleResponse without the break on success
HandleResponse_NoBreak(n, r) ==
    IF r.err /\ SleepsAfter(n)
    THEN [pc |-> "Sleeping", i |-> n]
    ELSE [pc |-> IF LoopCond(n + 1) THEN "Attempting" ELSE "GaveUp", i |-> n + 1]

\* the response bodies an attempt with outcome r leaves open: a transport
\* error yields no response; response.Body.Close() is reached only when the
\* loop is not left by the break
BodiesLeftOpen(r) ==
    IF r.err THEN 0
    ELSE IF IsSuccess(r) THEN 1
    ELSE 0

\* the body of the loop after Client.Do has returned outcome r for attempt n:
\* where the goroutine goes next
HandleResponse(n, r) ==
    IF r.err
    THEN IF SleepsAfter(n)
         THEN [pc |-> "Sleeping", i |-> n]
         ELSE [pc |-> IF LoopCond(n + 1) THEN "Attempting" ELSE "GaveUp", i |-> n + 1]
    ELSE IF IsSuccess(r)
         THEN [pc |-> "Succeeded", i |-> n]
         ELSE [pc |-> IF LoopCond(n + 1) THEN "Attempting" ELSE "GaveUp", i |-> n + 1]

(* ---------------- initial states ---------------- *)

\* the resolver and the helpers at rest
TzIdle == [pc |-> "idle"]
CalcIdle == [pc |-> "idle"]

DeliveryInit(launched, inputs) ==
    /\ dev \in BOOLEAN
    /\ input \in [Seqs -> inputs \cup {NoInput}]
    /\ \A s \in Seqs : s \notin launched <=> input[s] = NoInput
    /\ pc = [s \in Seqs |-> IF s \in launched THEN "Attempting" ELSE "Idle"]
    /\ i = [s \in Seqs |-> 1]
    /\ reqs = [s \in Seqs |-> <<>>]
    /\ resp = [s \in Seqs |-> NoResp]
    /\ sleeps = [s \in Seqs |-> <<>>]
    /\ failKinds = [s \in Seqs |-> {}]
    /\ doneCount = [s \in Seqs |-> 0]
    /\ wg = Cardinality(launched)
    /\ waitReturned = FALSE
    /\ crashed = FALSE
    /\ log = [s \in Seqs |-> <<>>]
    /\ openBodies = [s \in Seqs |-> 0]

InitWith(launched, inputs) ==
    /\ DeliveryInit(launched, inputs)
    /\ tz = TzIdle
    /\ calc = CalcIdle

\* goroutines that carry no optional argument
InitFor(launched, endpoints, ids, tags) ==
    InitWith(launched,
             {Merge(a, Bare) : a \in [endpoint : endpoints, id : ids, tag : tags]})

\* one delivery sequence, every input
Init == InitFor({1}, Endpoints, Identifiers, Tags)

\* NumSeq concurrent delivery sequences on one WaitGroup
InitConc == InitFor(Seqs, {"complete"}, {<<"a">>, <<"%">>}, {<<>>})

\* one delivery sequence, every combination of optional arguments and
\* configuration, for a well-formed and for a malformed identifier
InitEnc ==
    InitWith({1},
             {Merge([endpoint |-> "run", id |-> m, tag |-> g], n) :
                  m \in {<<"a">>, <<"%">>}, g \in {<<>>, <<"g">>}, n \in Notes})

(* ---------------- actions ---------------- *)

\* top of one loop iteration: choose the host, format the URI, build the
\* request and hand it to Client.Do.  When http.NewRequest fails, request is
\* nil and request.Header.Add dereferences it: the goroutine panics.
SendRequest(s) ==
    /\ ~crashed
    /\ pc[s] = "Attempting"
    /\ LET host == SelectHost(dev, i[s])
           uri == BuildUri(host, input[s].id, input[s].endpoint, i[s],
                           FormatStampParam(input[s].timestamp),
                           FormatMessage(input[s].message),
                           FormatAuthKey(input[s].authKey),
                           FormatHostname(effectiveHostname(input[s].hostOverride,
                                                            input[s].osHost)),
                           FormatDuration(input[s].duration),
                           FormatTag(input[s].tag),
                           FormatStatusCode(input[s].exitCode))
       IN /\ log' = [log EXCEPT ![s] = Append(@, [kind |-> "ping", try |-> i[s]])]
          /\ IF NewRequestOk(uri)
             THEN /\ reqs' = [reqs EXCEPT ![s] =
                                 Append(@, [try |-> i[s], host |-> host, uri |-> uri])]
                  /\ pc' = [pc EXCEPT ![s] = "InFlight"]
             ELSE /\ pc' = [pc EXCEPT ![s] = "Panicking"]
                  /\ UNCHANGED reqs
    /\ UNCHANGED <<dev, input, i, resp, sleeps, failKinds, doneCount, wg,
                   waitReturned, crashed, openBodies, otherVars>>

\* Client.Do returns (within the client's timeout); on a transport error the
\* error is logged, else the body is read and, unless the loop is left by
\* the break, closed
Respond(s, r) ==
    /\ ~crashed
    /\ pc[s] = "InFlight"
    /\ LET nxt == HandleResponse(i[s], r)
       IN /\ pc' = [pc EXCEPT ![s] = nxt.pc]
          /\ i' = [i EXCEPT ![s] = nxt.i]
          /\ sleeps' = [sleeps EXCEPT ![s] =
                           IF nxt.pc = "Sleeping"
                           THEN Append(@, [after |-> i[s], seconds |-> SleepSeconds])
                           ELSE @]
          /\ failKinds' = [failKinds EXCEPT ![s] =
                              IF nxt.pc = "Succeeded" THEN @ ELSE @ \cup {FailKind(r)}]
    /\ resp' = [resp EXCEPT ![s] =
                   [try |-> i[s], err |-> r.err, readErr |-> r.readErr,
                    status |-> r.status]]
    /\ log' = [log EXCEPT ![s] =
                  IF r.err THEN Append(@, [kind |-> "error", try |-> i[s]]) ELSE @]
    /\ openBodies' = [openBodies EXCEPT ![s] = @ + BodiesLeftOpen(r)]
    /\ UNCHANGED <<dev, input, reqs, doneCount, wg, waitReturned, crashed, otherVars>>

\* time.Sleep returns; continue
WakeUp(s) ==
    /\ ~crashed
    /\ pc[s] = "Sleeping"
    /\ i' = [i EXCEPT ![s] = @ + 1]
    /\ pc' = [pc EXCEPT ![s] = IF LoopCond(i[s] + 1) THEN "Attempting" ELSE "GaveUp"]
    /\ UNCHANGED <<dev, input, reqs, resp, sleeps, failKinds, doneCount, wg,
                   waitReturned, crashed, log, openBodies, otherVars>>

\* defer group.Done(): runs when sendPing returns and when it panics
DeferredDone(s) ==
    /\ ~crashed
    /\ pc[s] \in {"Succeeded", "GaveUp", "Panicking"}
    /\ doneCount[s] = 0
    /\ doneCount' = [doneCount EXCEPT ![s] = @ + 1]
    /\ wg' = wg - 1
    /\ UNCHANGED <<dev, input, pc, i, reqs, resp, sleeps, failKinds,
                   waitReturned, crashed, log, openBodies, otherVars>>

\* the panic reaches the top of the goroutine: the runtime ends the process
Crash(s) ==
    /\ ~crashed
    /\ pc[s] = "Panicking"
    /\ doneCount[s] = 1
    /\ crashed' = TRUE
    /\ pc' = [pc EXCEPT ![s] = "Panicked"]
    /\ UNCHANGED <<dev, input, i, reqs, resp, sleeps, failKinds, doneCount, wg,
                   waitReturned, log, openBodies, otherVars>>

\* the caller's group.Wait() returns once the counter is zero
WaitReturn ==
    /\ ~crashed
    /\ ~waitReturned
    /\ wg = 0
    /\ waitReturned' = TRUE
    /\ UNCHANGED <<dev, input, pc, i, reqs, resp, sleeps, failKinds, doneCount,
                   wg, crashed, log, openBodies, otherVars>>

Next ==
    \/ \E s \in Seqs : SendRequest(s)
    \/ \E s \in Seqs : \E r \in Outcomes : Respond(s, r)
    \/ \E s \in Seqs : WakeUp(s)
    \/ \E s \in Seqs : DeferredDone(s)
    \/ \E s \in Seqs : Crash(s)
    \/ WaitReturn

Spec == Init /\ [][Next]_vars

\* the outcomes the concurrent specification lets each attempt have
ConcOutcomes ==
    {TransportError,
     [err |-> FALSE, readErr |-> FALSE, status |-> 200],
     [err |-> FALSE, readErr |-> FALSE, status |-> 500]}

NextConc ==
    \/ \E s \in Seqs : SendRequest(s)
    \/ \E s \in Seqs : \E r \in ConcOutcomes : Respond(s, r)
    \/ \E s \in Seqs : WakeUp(s)
    \/ \E s \in Seqs : DeferredDone(s)
    \/ \E s \in Seqs : Crash(s)
    \/ WaitReturn

SpecConc == InitConc /\ [][NextConc]_vars

\* every request returns, every sleep ends and every goroutine is scheduled
FairnessOver(outs) ==
    /\ \A s \in Seqs : WF_vars(SendRequest(s))
    /\ \A s \in Seqs : WF_vars(\E r \in outs : Respond(s, r))
    /\ \A s \in Seqs : WF_vars(WakeUp(s))
    /\ \A s \in Seqs : WF_vars(DeferredDone(s))
    /\ \A s \in Seqs : WF_vars(Crash(s))
    /\ WF_vars(WaitReturn)

FairSpec == Spec /\ FairnessOver(Outcomes)

\* the encoder's inputs in full, each attempt with one of ConcOutcomes
SpecEnc == InitEnc /\ [][NextConc]_vars

FairSpecConc == SpecConc /\ FairnessOver(ConcOutcomes)

(* ---------------- properties ---------------- *)

\* an attempt whose request completed, whose body was read and whose status
\* is below 400
RespOK(r) == r.try > 0 /\ ~r.err /\ ~r.readErr /\ r.status < 400

RespFailed(r) == r.try > 0 /\ ~RespOK(r)

SleepLoggedAfter(s, n) ==
    \E k \in 1..Len(sleeps[s]) : sleeps[s][k] = [after |-> n, seconds |-> 2]

\* C1: in a non-dev run attempts 1 and 2 target https://cronitor.link and
\* every attempt from the third on targets https://cronitor.io, so that no
\* attempt after a canonical one goes back to cronitor.link.
C1_FailoverHosts ==
    \A s \in Seqs :
        ~dev =>
            \A k \in 1..Len(reqs[s]) :
                reqs[s][k].host =
                    IF reqs[s][k].try <= 2 THEN "https://cronitor.link"
                    ELSE "https://cronitor.io"

\* C2: a sequence whose attempts all fail with a transport error sleeps 2
\* seconds exactly three times, after attempts 3, 4 and 5 (before attempts
\* 4, 5 and 6), never before attempts 1-3 and never after the sixth failure.
C2_ThreeSleeps ==
    \A s \in Seqs :
        failKinds[s] = {"transport"} =>
            /\ \A k \in 1..Len(sleeps[s]) :
                   sleeps[s][k] = [after |-> k + 2, seconds |-> 2]
            /\ Len(sleeps[s]) <= 3
            /\ pc[s] # "Sleeping" \/ i[s] < 6
            /\ pc[s] = "GaveUp" => Len(sleeps[s]) = 3

\* C3: whenever attempt n+1 is issued after a failed attempt n with
\* 3 <= n <= 5, a 2 second sleep was performed after attempt n, whatever the
\* kind of the failure; no sleep follows a failure of attempt 1 or 2.
C3_SleepAfterAnyFailure ==
    \A s \in Seqs :
        /\ \A n \in 3..5 : Len(reqs[s]) > n => SleepLoggedAfter(s, n)
        /\ \A k \in 1..Len(sleeps[s]) : sleeps[s][k].after > 2

\* C4: no delivery sequence panics or otherwise terminates the process,
\* whatever the identifier, the tag and the network outcomes.
C4_NeverFatal ==
    /\ ~crashed
    /\ \A s \in Seqs : pc[s] \notin {"Panicking", "Panicked"}

\* C5: a sequence issues at most 6 requests, the k-th request carries try = k,
\* and a sequence gives up only after six requests of which the sixth failed;
\* after six failures it gives up without a seventh request.
C5_AtMostSixInOrder ==
    \A s \in Seqs :
        /\ Len(reqs[s]) <= 6
        /\ \A k \in 1..Len(reqs[s]) : reqs[s][k].try = k
        /\ pc[s] = "GaveUp" =>
               /\ Len(reqs[s]) = 6
               /\ RespFailed(resp[s]) /\ resp[s].try = 6
        /\ (RespFailed(resp[s]) /\ resp[s].try = 6) => pc[s] \in {"Sleeping", "GaveUp"}

C5_Witness ==
    \E s \in Seqs :
        pc[s] = "GaveUp" /\ Len(reqs[s]) = 6 /\ failKinds[s] = {"transport", "body", "status"}

\* C6: once an attempt n has succeeded the sequence is in Succeeded, request
\* n is its last request and no sleep follows attempt n; a sequence whose
\* first attempt failed and whose second returned 200 made exactly 2 requests
\* and slept 0 times.
C6_StopsOnSuccess ==
    \A s \in Seqs :
        RespOK(resp[s]) =>
            /\ pc[s] = "Succeeded"
            /\ Len(reqs[s]) = resp[s].try
            /\ \A k \in 1..Len(sleeps[s]) : sleeps[s][k].after < resp[s].try
            /\ (resp[s].try = 2 /\ resp[s].status = 200) =>
                   (Len(reqs[s]) = 2 /\ sleeps[s] = <<>>)

C6_Witness ==
    \E s \in Seqs :
        /\ pc[s] = "Succeeded" /\ doneCount[s] = 1
        /\ resp[s].try = 2 /\ resp[s].status = 200
        /\ failKinds[s] # {}
        /\ Len(reqs[s]) = 2 /\ sleeps[s] = <<>>

\* C7: the sequence is in Succeeded exactly when its latest attempt had no
\* transport error, a readable body and a status below 400; after any other
\* outcome of an attempt n < 6 the sequence is sleeping before, about to
\* issue, or has issued attempt n+1.
C7_SuccessIff ==
    \A s \in Seqs :
        resp[s].try > 0 =>
            /\ pc[s] = "Succeeded" <=> RespOK(resp[s])
            /\ RespFailed(resp[s]) => failKinds[s] # {}
            /\ (RespFailed(resp[s]) /\ resp[s].try < 6) =>
                   \/ pc[s] = "Sleeping" /\ i[s] = resp[s].try
                   \/ pc[s] = "Attempting" /\ i[s] = resp[s].try + 1
                   \/ /\ pc[s] = "InFlight"
                      /\ Len(reqs[s]) = resp[s].try + 1
                      /\ reqs[s][Len(reqs[s])].try = resp[s].try + 1

C7_Witness ==
    \E s \in Seqs :
        /\ resp[s].readErr /\ resp[s].status = 200 /\ resp[s].try = 4
        /\ pc[s] = "InFlight" /\ Len(reqs[s]) = 5

\* C8: with the dev flag set every attempt targets http://dev.cronitor.io,
\* and neither cronitor.link nor https://cronitor.io is contacted.
C8_DevHostOnly ==
    \A s \in Seqs :
        dev =>
            \A k \in 1..Len(reqs[s]) :
                /\ reqs[s][k].host = "http://dev.cronitor.io"
                /\ reqs[s][k].uri[1] = "http://dev.cronitor.io"

C8_Witness ==
    \E s \in Seqs : dev /\ Len(reqs[s]) = 6 /\ pc[s] = "GaveUp"

\* C9: every started delivery sequence eventually ends in Succeeded or in
\* GaveUp, given that every request returns and every sleep ends.
C9_Terminates ==
    \A s \in Seqs :
        (pc[s] # "Idle") ~> (pc[s] \in {"Succeeded", "GaveUp"})

\* C10: each of the N sequences signals the barrier at most once and has
\* signalled it once it ended, the caller's wait returns only when all N
\* sequences have ended in Succeeded or GaveUp, and it eventually returns.
C10_Barrier ==
    /\ [](\A s \in Seqs :
            /\ doneCount[s] <= 1
            /\ doneCount[s] = 1 => pc[s] \in {"Succeeded", "GaveUp"})
    /\ [](waitReturned => \A s \in Seqs : pc[s] \in {"Succeeded", "GaveUp"} /\ doneCount[s] = 1)
    /\ <>waitReturned


(* ---------------- the helpers called on their own ---------------- *)

\* n bytes, the k-th of which is pattern[k] (repeating)
Fill(pattern, n) == [k \in 1..n |-> pattern[((k - 1) % Len(pattern)) + 1]]

\* texts around the limits of 50 and 2000 bytes: plain, all to be escaped,
\* and mixed
TextLengths == {0, 1, 49, 50, 51, 1999, 2000, 2001}
TextPatterns == {<<"a">>, <<" ">>, <<"&">>, <<"a", "&", "z">>}
Texts == {Fill(pt, n) : pt \in TextPatterns, n \in TextLengths}
Lengths == {0, 1, 50, 2000}

\* finite non-negative float64 values: whole numbers, values next to a
\* rounding boundary, exact ties, and a fraction that rounds up to the next
\* whole number
FloatInts == {0, 1, 9, 10, 999, 1000, 1700000000, 2147483646}
FloatFracs ==
    {0, 1, 2097, 2098, FracDen \div 16, 3 * (FracDen \div 16), FracDen \div 2,
     517812, FracDen - 2098, FracDen - 1}
Floats == [ip : FloatInts, fn : FloatFracs]

CalcCall(op, s, length, x) ==
    [pc |-> "ready", op |-> op, s |-> s, length |-> length, x |-> x,
     out |-> <<>>, again |-> <<>>, msg |-> <<>>, key |-> <<>>, host |-> <<>>]

InitHelpers ==
    /\ DeliveryInit({}, {})
    /\ tz = TzIdle
    /\ calc \in {CalcCall("truncateString", s, n, ZeroFloat) : s \in Texts, n \in Lengths}
              \cup {CalcCall("formatStamp", <<>>, 0, x) : x \in Floats}

\* truncateString(s, length), truncateString of its result, and the three
\* fragments of sendPing that truncate
CallTruncate ==
    /\ calc.pc = "ready"
    /\ calc.op = "truncateString"
    /\ calc' = [calc EXCEPT !.pc = "done",
                            !.out = truncateString(calc.s, calc.length),
                            !.again = truncateString(truncateString(calc.s, calc.length),
                                                     calc.length),
                            !.msg = FormatMessage(calc.s),
                            !.key = FormatAuthKey(calc.s),
                            !.host = FormatHostname(calc.s)]
    /\ UNCHANGED <<deliveryVars, tz>>

\* formatStamp(x)
CallFormatStamp ==
    /\ calc.pc = "ready"
    /\ calc.op = "formatStamp"
    /\ calc' = [calc EXCEPT !.pc = "done", !.out = formatStamp(calc.x)]
    /\ UNCHANGED <<deliveryVars, tz>>

NextHelpers ==
    \/ CallTruncate
    \/ CallFormatStamp

SpecHelpers == InitHelpers /\ [][NextHelpers]_vars

\* the first n bytes of s, or all of s when it is shorter
Prefix(s, n) == [k \in 1..(IF Len(s) < n THEN Len(s) ELSE n) |-> s[k]]

Truncated == calc.pc = "done" /\ calc.op = "truncateString"

\* C13: truncateString(s, L) is s when len(s) <= L and else the first L
\* bytes of s, never longer than L, and truncating its result again changes
\* nothing; sendPing's msg carries the escape of the first 2000 bytes of the
\* message, auth_key the first 50 bytes of the key, host the escape of the
\* first 50 bytes of the hostname.
C13_Truncation ==
    Truncated =>
        /\ Len(calc.out) <= calc.length
        /\ Len(calc.s) <= calc.length => calc.out = calc.s
        /\ calc.out = Prefix(calc.s, calc.length)
        /\ calc.again = calc.out
        /\ calc.s # <<>> =>
               /\ calc.msg = <<"&msg=">> \o QueryEscape(Prefix(calc.s, 2000))
               /\ calc.key = <<"&auth_key=">> \o Prefix(calc.s, 50)
               /\ calc.host = <<"&host=">> \o QueryEscape(Prefix(calc.s, 50))

C13_Witness ==
    /\ Truncated
    /\ Len(calc.s) = 2001 /\ calc.s[1] = "&" /\ calc.length = 50
    /\ Len(calc.out) = 50
    /\ Len(calc.msg) = 6001 /\ Len(calc.key) = 51 /\ Len(calc.host) = 151

DecimalDigits == {"0", "1", "2", "3", "4", "5", "6", "7", "8", "9"}

Formatted == calc.pc = "done" /\ calc.op = "formatStamp"

\* C20: formatStamp writes digits, a decimal point and exactly 3 digits, and
\* nothing else (no exponent); 1700000000.123456 becomes "1700000000.123".
C20_FixedThreeDecimals ==
    Formatted =>
        LET n == Len(calc.out)
        IN /\ n >= 5
           /\ calc.out[n - 3] = "."
           /\ \A p \in 1..n : p # n - 3 => calc.out[p] \in DecimalDigits
           /\ calc.x = [ip |-> 1700000000, fn |-> 517812] =>
                  calc.out = <<"1", "7", "0", "0", "0", "0", "0", "0", "0", "0", ".",
                               "1", "2", "3">>

C20_Witness ==
    /\ Formatted
    /\ calc.x = [ip |-> 1700000000, fn |-> 517812]
    /\ calc.out = <<"1", "7", "0", "0", "0", "0", "0", "0", "0", "0", ".", "1", "2", "3">>

(* ---------------- timezoneLocationName ---------------- *)

IsSpace(c) == c \in {" ", "\n"}

\* strings.Replace(output, "Time zone", "Timezone", -1)
NormalizeLabel(out) ==
    [k \in 1..Len(out) |-> IF out[k] = "Time zone:" THEN "Timezone:" ELSE out[k]]

\* the number of whitespace tokens of s from position p on
RECURSIVE SpaceRun(_, _)
SpaceRun(s, p) ==
    IF p > Len(s) \/ ~IsSpace(s[p]) THEN 0 ELSE 1 + SpaceRun(s, p + 1)

\* the number of non-whitespace tokens of s from position p on
RECURSIVE TokenRun(_, _)
TokenRun(s, p) ==
    IF p > Len(s) \/ IsSpace(s[p]) THEN 0 ELSE 1 + TokenRun(s, p + 1)

\* group 1 of (?m:Timezone:\s+(\S+).+$) matched at position p, or <<>>
\* when the pattern does not match there.  \S+ is greedy, but .+ needs at
\* least one more character before the end of the line: when the run of
\* non-space characters ends the line, \S+ gives its last character to .+
MatchAt(s, p) ==
    LET w == SpaceRun(s, p + 1)
        b == p + 1 + w
        m == TokenRun(s, b)
        e == b + m
    IN IF s[p] # "Timezone:" \/ w = 0 \/ m = 0 THEN <<>>
       ELSE IF e <= Len(s) /\ s[e] # "\n" THEN SubSeq(s, b, e - 1)
       ELSE IF m >= 2 THEN SubSeq(s, b, e - 2)
       ELSE <<>>

\* r.FindStringSubmatch(outputString)[1]: the leftmost match, <<>> if none
FindTimezone(s) ==
    LET ps == {p \in 1..Len(s) : MatchAt(s, p) # <<>>}
    IN IF ps = {} THEN <<>>
       ELSE MatchAt(s, CHOOSE p \in ps : \A q \in ps : p <= q)

\* strings.Split(symlink, "/"): the segments between the slashes
RECURSIVE Split(_)
Split(s) ==
    LET ps == {p \in 1..Len(s) : s[p] = "/"}
    IN IF ps = {} THEN <<s>>
       ELSE LET p == CHOOSE x \in ps : \A q \in ps : x <= q
            IN <<SubSeq(s, 1, p - 1)>> \o Split(SubSeq(s, p + 1, Len(s)))

\* strings.Join(parts, "/")
RECURSIVE Join(_)
Join(parts) ==
    IF Len(parts) = 0 THEN <<>>
    ELSE IF Len(parts) = 1 THEN parts[1]
    ELSE parts[1] \o <<"/">> \o Join(Tail(parts))

\* symlinkParts[len(symlinkParts)-2:] is in range
LastTwoInRange(parts) == Len(parts) - 2 >= 0

\* the environment the resolver may find
TzValues == {<<>>, <<"Europe", "/", "Paris">>}
CtlOutputs ==
    {lead \o label \o ws \o tok \o trail :
        lead \in {<<>>, <<"Local time:", " ", "x", "\n">>},
        label \in {<<>>, <<"Time zone:">>, <<"Timezone:">>},
        ws \in {<<>>, <<" ">>, <<"\n", " ">>},
        tok \in {<<"U">>, <<"U", "T", "C">>},
        trail \in {<<>>, <<" ", "(", "x", ")">>, <<"\n", "N", "T", "P">>}}
LinkTargets ==
    {<<>>, <<"UTC">>, <<"/", "UTC">>, <<"zoneinfo", "/", "UTC">>,
     <<"/", "usr", "/", "zoneinfo", "/", "America", "/", "New_York">>,
     <<"..", "/", "zoneinfo", "/", "Europe", "/", "Paris">>}
FileContents == <<"Etc", "/", "UTC", "\n">>

TzEnvs ==
    {[tzSet |-> ts, tzVal |-> tv, ctlOk |-> co, ctlOut |-> out, ltKind |-> lk,
      ltTarget |-> lt, fileOk |-> fo] :
        ts \in BOOLEAN, tv \in TzValues, co \in BOOLEAN, out \in CtlOutputs,
        lk \in {"absent", "file", "symlink"}, lt \in LinkTargets, fo \in BOOLEAN}

\* states of the machine: unset variables have no value, a failed command no
\* output, and only a symbolic link has a target
PossibleEnv(e) ==
    /\ ~e.tzSet => e.tzVal = <<>>
    /\ ~e.ctlOk => e.ctlOut = <<"U">>
    /\ e.ltKind # "symlink" => e.ltTarget = <<>>

InitTz ==
    /\ DeliveryInit({}, {})
    /\ calc = CalcIdle
    /\ \E e \in {x \in TzEnvs : PossibleEnv(x)} :
           tz = [pc |-> "env", env |-> e, result |-> <<>>, source |-> "none"]

TzReturn(value, source) ==
    tz' = [tz EXCEPT !.pc = "returned", !.result = value, !.source = source]

\* if locale, isSetFlag := os.LookupEnv("TZ"); isSetFlag { return locale }
TzLookupEnv ==
    /\ tz.pc = "env"
    /\ IF tz.env.tzSet
       THEN TzReturn(tz.env.tzVal, "env")
       ELSE tz' = [tz EXCEPT !.pc = "timedatectl"]
    /\ UNCHANGED <<deliveryVars, calc>>

\* exec.Command("timedatectl").Output() and the pattern
TzTimedatectl ==
    /\ tz.pc = "timedatectl"
    /\ LET ret == FindTimezone(NormalizeLabel(tz.env.ctlOut))
       IN IF tz.env.ctlOk /\ ret # <<>>
          THEN TzReturn(ret, "timedatectl")
          ELSE tz' = [tz EXCEPT !.pc = "localtime"]
    /\ UNCHANGED <<deliveryVars, calc>>

\* os.Lstat("/etc/localtime"), os.Readlink, Split, Join of the last two
\* segments; the slice expression panics when there are fewer than two
TzLocaltime ==
    /\ tz.pc = "localtime"
    /\ IF tz.env.ltKind = "symlink" /\ Len(tz.env.ltTarget) > 0
       THEN LET parts == Split(tz.env.ltTarget)
            IN IF LastTwoInRange(parts)
               THEN TzReturn(Join(SubSeq(parts, Len(parts) - 1, Len(parts))), "symlink")
               ELSE tz' = [tz EXCEPT !.pc = "panicked"]
       ELSE tz' = [tz EXCEPT !.pc = "timezonefile"]
    /\ UNCHANGED <<deliveryVars, calc>>

\* ioutil.ReadFile("/etc/timezone"), else return ""
TzReadFile ==
    /\ tz.pc = "timezonefile"
    /\ IF tz.env.fileOk
       THEN TzReturn(FileContents, "file")
       ELSE TzReturn(<<>>, "none")
    /\ UNCHANGED <<deliveryVars, calc>>

NextTz ==
    \/ TzLookupEnv
    \/ TzTimedatectl
    \/ TzLocaltime
    \/ TzReadFile

SpecTz == InitTz /\ [][NextTz]_vars

TzFinished == tz.pc \in {"returned", "panicked"}

\* C14: the resolver never panics, whatever the environment.
C14_NeverRaises == tz.pc # "panicked"

\* the token that follows the first label "Timezone:" or "Time zone:" which
\* has whitespace and then a token after it; <<>> when there is none
LabelledToken(out) ==
    LET isLabel(p) == out[p] \in {"Timezone:", "Time zone:"}
        ok(p) == /\ isLabel(p)
                 /\ SpaceRun(out, p + 1) > 0
                 /\ TokenRun(out, p + 1 + SpaceRun(out, p + 1)) > 0
        ps == {p \in 1..Len(out) : ok(p)}
    IN IF ps = {} THEN <<>>
       ELSE LET p == CHOOSE x \in ps : \A q \in ps : x <= q
                b == p + 1 + SpaceRun(out, p + 1)
            IN SubSeq(out, b, b + TokenRun(out, b) - 1)

\* the last two "/"-separated segments of a link target
LastTwoSegments(target) ==
    LET parts == Split(target)
    IN IF Len(parts) >= 2 THEN Join(SubSeq(parts, Len(parts) - 1, Len(parts)))
       ELSE target

\* the value of the first source that has one, in the order TZ,
\* timedatectl (what the pattern extracts), /etc/localtime, /etc/timezone
FirstSource(e) ==
    IF e.tzSet THEN e.tzVal
    ELSE IF e.ctlOk /\ FindTimezone(NormalizeLabel(e.ctlOut)) # <<>>
         THEN FindTimezone(NormalizeLabel(e.ctlOut))
    ELSE IF e.ltKind = "symlink" /\ e.ltTarget # <<>> THEN LastTwoSegments(e.ltTarget)
    ELSE IF e.fileOk THEN FileContents
    ELSE <<>>

\* C15: the resolver returns the value of the first source that succeeds in
\* the order TZ, timedatectl, /etc/localtime link, /etc/timezone, else the
\* empty string; a TZ that is set, even to the empty string, is returned
\* whatever the later sources hold.
C15_FirstSourceWins ==
    TzFinished => (tz.pc = "returned" /\ tz.result = FirstSource(tz.env))

\* C18: with TZ unset, when timedatectl's output has the label followed by
\* whitespace and a token, the resolver returns that whole token, also when
\* the token ends its line.
C18_WholeToken ==
    (TzFinished /\ ~tz.env.tzSet /\ tz.env.ctlOk /\ LabelledToken(tz.env.ctlOut) # <<>>)
        => (tz.pc = "returned" /\ tz.result = LabelledToken(tz.env.ctlOut))

(* ---------------- logging and response bodies ---------------- *)

Logged(s, kind, n) == \E k \in 1..Len(log[s]) : log[s][k] = [kind |-> kind, try |-> n]

\* attempt n of goroutine s has failed
AttemptFailed(s, n) == n < resp[s].try \/ (n = resp[s].try /\ RespFailed(resp[s]))

\* C17: every failed attempt, whatever the kind of its failure, has a log
\* entry that records the failure, and a sequence that gave up has a log
\* entry that records it.
C17_FailuresLogged ==
    \A s \in Seqs :
        /\ \A n \in 1..resp[s].try : AttemptFailed(s, n) => Logged(s, "error", n)
        /\ pc[s] = "GaveUp" => \E k \in 1..Len(log[s]) : log[s][k].kind = "gaveup"

\* C19: when a sequence has ended, every response body it received has been
\* closed.
C19_BodiesClosed ==
    \A s \in Seqs : pc[s] \in {"Succeeded", "GaveUp"} => openBodies[s] = 0

(* ---------------- properties of the encoded URI ---------------- *)

ParamNames ==
    <<"?try=", "&stamp=", "&msg=", "&auth_key=", "&host=", "&duration=", "&tag=",
      "&status_code=">>

IsParamName(tok) == \E r \in 1..Len(ParamNames) : ParamNames[r] = tok

Rank(tok) == CHOOSE r \in 1..Len(ParamNames) : ParamNames[r] = tok

HasParam(uri, name) == \E p \in 1..Len(uri) : uri[p] = name

\* the parameter names of a URI, in the order in which they occur
NamesOf(uri) == SelectSeq(uri, IsParamName)

NoStraySeparator(uri) == \A p \in 1..Len(uri) : uri[p] # "&"

\* a URI with its host and its try value blanked
Payload(uri) ==
    [p \in 1..Len(uri) |->
        IF p = 1 \/ (p > 1 /\ uri[p - 1] = "?try=") THEN "_" ELSE uri[p]]

OptionalsAsSupplied(uri, in) ==
    /\ HasParam(uri, "?try=")
    /\ HasParam(uri, "&msg=") <=> in.message # <<>>
    /\ HasParam(uri, "&auth_key=") <=> in.authKey # <<>>
    /\ HasParam(uri, "&host=") <=> (in.hostOverride # <<>> \/ in.osHost # <<>>)
    /\ HasParam(uri, "&duration=") <=> ~in.duration.nil
    /\ HasParam(uri, "&tag=") <=> in.tag # <<>>
    /\ HasParam(uri, "&status_code=") <=> ~in.exitCode.nil
    /\ NoStraySeparator(uri)

\* C11 as stated: every optional parameter is in the URI exactly when its
\* value was supplied, a supplied zero included: a timestamp of 0, a
\* duration of 0 and an exit code of 0 each yield their parameter.
C11_ZeroValuesEncoded ==
    \A s \in Seqs : \A k \in 1..Len(reqs[s]) :
        /\ OptionalsAsSupplied(reqs[s][k].uri, input[s])
        /\ HasParam(reqs[s][k].uri, "&stamp=")

\* C11 amended: stamp is in the URI exactly when the timestamp is greater
\* than 0; msg, auth_key, host and tag exactly when their text is not
\* empty; duration and status_code exactly when their pointer is not nil,
\* zero values included; try always; no separator without a parameter.
C11_FieldIffPresent ==
    \A s \in Seqs : \A k \in 1..Len(reqs[s]) :
        /\ OptionalsAsSupplied(reqs[s][k].uri, input[s])
        /\ HasParam(reqs[s][k].uri, "&stamp=") <=>
               (input[s].timestamp.ip > 0 \/ input[s].timestamp.fn > 0)

C11_Witness ==
    \E s \in Seqs :
        /\ Len(reqs[s]) > 0
        /\ input[s].timestamp = ZeroFloat
        /\ input[s].duration = PtrTo(ZeroFloat)
        /\ input[s].exitCode = PtrTo(0)
        /\ input[s].message = <<>>
        /\ NamesOf(reqs[s][1].uri) = <<"?try=", "&duration=", "&status_code=">>

\* C12: any two requests of one sequence have the same path and the same
\* query apart from the host and the value of try.
C12_SamePayload ==
    \A s \in Seqs : \A j, k \in 1..Len(reqs[s]) :
        Payload(reqs[s][j].uri) = Payload(reqs[s][k].uri)

C12_Witness ==
    \E s \in Seqs :
        /\ Len(reqs[s]) = 6
        /\ Len(NamesOf(reqs[s][6].uri)) = 8
        /\ reqs[s][1].uri # reqs[s][6].uri

\* C16: the parameters of a request URI occur in the order try, stamp, msg,
\* auth_key, host, duration, tag, status_code, each at most once, try first,
\* and no "&" occurs other than the one that introduces a parameter.
C16_FixedOrder ==
    \A s \in Seqs : \A k \in 1..Len(reqs[s]) :
        LET names == NamesOf(reqs[s][k].uri)
        IN /\ Len(names) >= 1 /\ names[1] = "?try="
           /\ \A a, b \in 1..Len(names) : a < b => Rank(names[a]) < Rank(names[b])
           /\ NoStraySeparator(reqs[s][k].uri)

C16_Witness ==
    \E s \in Seqs :
        /\ Len(reqs[s]) > 0
        /\ NamesOf(reqs[s][1].uri) = ParamNames

TypeOK ==
    /\ dev \in BOOLEAN
    /\ \A s \in Seqs :
        /\ pc[s] \in {"Idle", "Attempting", "InFlight", "Sleeping", "Succeeded",
                      "GaveUp", "Panicking", "Panicked"}
        /\ i[s] \in 1..(MaxTries + 1)
        /\ doneCount[s] \in 0..1
    /\ wg \in 0..NumSeq
    /\ waitReturned \in BOOLEAN
    /\ crashed \in BOOLEAN
====
